---- MODULE Spec2Model ----
(***************************************************************************)
(* Checkpoint lifecycle, training loop and evaluation orchestration of     *)
(* HfPyTorchModel (src/t5/models/hf_model.py).                             *)
(*                                                                         *)
(* The model parameters are an abstract value of Params.  A directory is a *)
(* function from file names to the parameters stored in the file.  A file  *)
(* name is the sequence of its characters, with the two fixed parts of     *)
(* CHECKPOINT_FILE_FORMAT kept as one token each.                          *)
(***************************************************************************)
EXTENDS Integers, Sequences, FiniteSets, TLC

\* ------------------------------------------------------------------ bounds
MaxStep == 12
MaxTrainSteps == 10
MaxSaveSteps == 4
MaxSaveArg == 3
MaxFinetuneSteps == 2
MaxCalls == 2
NumParams == 3
NumExamples == 5

Params == 0 .. (NumParams - 1)
Dirs == {"model_dir", "pretrained_model_dir"}

\* ------------------------------------------------- python values and str()
None == [none |-> TRUE, v |-> 0]
Some(n) == [none |-> FALSE, v |-> n]

Digits == <<"0", "1", "2", "3", "4", "5", "6", "7", "8", "9">>
DigitSet == {Digits[i] : i \in 1 .. 10}
DigitVal(c) == (CHOOSE i \in 1 .. 10 : Digits[i] = c) - 1

\* str(n) of an int, as "{}".format(n) writes it
RECURSIVE Str(_)
Str(n) ==
  IF n < 0 THEN <<"-">> \o Str(-n)
  ELSE IF n < 10 THEN <<Digits[n + 1]>>
  ELSE Str(n \div 10) \o <<Digits[(n % 10) + 1]>>

\* "{}".format(x) of an int or None
PyStr(x) == IF x.none THEN <<"N", "o", "n", "e">> ELSE Str(x.v)

\* int(s) of a digit string
RECURSIVE PyInt(_)
PyInt(s) ==
  IF Len(s) = 0 THEN 0
  ELSE PyInt(SubSeq(s, 1, Len(s) - 1)) * 10 + DigitVal(s[Len(s)])

CHECKPOINT_FILE_FORMAT(x) == <<"model-">> \o x \o <<".checkpoint">>

\* ------------------------------------------------------------------- state
VARIABLES
  step,      \* self._step
  params,    \* self._model.state_dict()
  files,     \* files[d]: the checkpoint files of directory d, name -> content
  pc,        \* position of the running call; "idle" between calls, "done" at its end
  call,      \* the running call: its name, its arguments, the step and parameters it started with
  result,    \* how the call ended: "ok" or the exception raised
  calls,     \* number of top-level calls made so far
  prev,      \* the call before the running one, when it was a save_checkpoint
  train_step,\* train: the loop index (-1: not yet bound)
  trainSaved,\* train: the steps save_checkpoint was called with by this call
  tasks,     \* eval: the tasks left after the split filter
  cached,    \* eval: cached_targets, task name -> number of targets
  ckpts,     \* eval: the checkpoint steps still to load
  taskIdx,   \* eval: position of _eval_current_model in tasks
  predFiles, \* eval: <<task, step, lines>> of the predictions files written by the call
  scalars,   \* eval: <<task, metric, step, params>> of the scalars logged by the call
  loaded,    \* eval: the steps loaded by the call, in order
  saved      \* the steps save_checkpoint was called with on model_dir

vars == <<step, params, files, pc, call, result, calls, prev, train_step, trainSaved,
          tasks, cached, ckpts, taskIdx, predFiles, scalars, loaded, saved>>

evalVars == <<tasks, cached, ckpts, taskIdx, predFiles, scalars, loaded>>

\* --------------------------------------------------------- checkpoint store
EmptyDir == [n \in {} |-> 0]

\* the directory with one more (or one overwritten) file
WriteFile(dir, name, content) ==
  [n \in (DOMAIN dir) \cup {name} |-> IF n = name THEN content ELSE dir[n]]

\* tf.io.gfile.glob(os.path.join(model_dir, "model-*.checkpoint"))
Glob(d) ==
  {n \in DOMAIN files[d] :
     Len(n) >= 2 /\ n[1] = "model-" /\ n[Len(n)] = ".checkpoint"}

\* the group(1) of step_regex.match(path): the digits after "model-"
StepGroup(n) == SubSeq(n, 2, Len(n) - 1)

\* x before y in the order of their decimal strings ("10" before "9")
RECURSIVE StrLess(_, _)
StrLess(a, b) ==
  IF a = <<>> THEN b # <<>>
  ELSE IF b = <<>> THEN FALSE
  ELSE IF Head(a) # Head(b) THEN DigitVal(Head(a)) < DigitVal(Head(b))
  ELSE StrLess(Tail(a), Tail(b))

\* sorted() of the step strings, not of the ints
RECURSIVE SortedSeq_strings(_)
SortedSeq_strings(S) ==
  IF S = {} THEN <<>>
  ELSE LET m == CHOOSE x \in S : \A y \in S \ {x} : StrLess(Str(x), Str(y))
       IN <<m>> \o SortedSeq_strings(S \ {m})

\* sorted(list) of a collection of distinct ints
RECURSIVE SortedSeq(_)
SortedSeq(S) ==
  IF S = {} THEN <<>>
  ELSE LET m == CHOOSE x \in S : \A y \in S : x <= y
       IN <<m>> \o SortedSeq(S \ {m})

\* the first element, not the largest
MaxOf_first(s) == s[1]

\* max(list)
MaxOf(s) == CHOOSE x \in {s[i] : i \in 1 .. Len(s)} : \A i \in 1 .. Len(s) : s[i] <= x

get_all_checkpoint_steps(d) ==
  IF Glob(d) = {} THEN [none |-> TRUE, v |-> <<>>]
  ELSE [none |-> FALSE, v |-> SortedSeq({PyInt(StepGroup(n)) : n \in Glob(d)})]

get_latest_checkpoint_step(d) ==
  LET steps == get_all_checkpoint_steps(d)
  IN IF steps.none THEN None ELSE Some(MaxOf(steps.v))

\* load_checkpoint that sets self._step before torch.load
load_checkpoint_stepFirst(s, d) ==
  LET path == CHECKPOINT_FILE_FORMAT(PyStr(s))
  IN IF path \in DOMAIN files[d]
     THEN [ok |-> TRUE, params |-> files[d][path], step |-> s.v]
     ELSE [ok |-> FALSE, params |-> params, step |-> s.v]

\* load_checkpoint that ignores its model_dir argument
load_checkpoint_ownDir(s, d) ==
  LET path == CHECKPOINT_FILE_FORMAT(PyStr(s))
  IN IF path \in DOMAIN files["model_dir"]
     THEN [ok |-> TRUE, params |-> files["model_dir"][path], step |-> s.v]
     ELSE [ok |-> FALSE, params |-> params, step |-> step]

\* load_checkpoint(step, model_dir): the parameters and step it leaves, or the
\* error of torch.load on a missing file (raised before self._step is set)
load_checkpoint(s, d) ==
  LET path == CHECKPOINT_FILE_FORMAT(PyStr(s))
  IN IF path \in DOMAIN files[d]
     THEN [ok |-> TRUE, params |-> files[d][path], step |-> s.v]
     ELSE [ok |-> FALSE, params |-> params, step |-> step]

\* load_latest_checkpoint, called with parameters p0 and step s0 in memory
load_latest_checkpoint(p0, s0) ==
  LET latest_step == get_latest_checkpoint_step("model_dir")
  IN IF ~latest_step.none
     THEN load_checkpoint(latest_step, "model_dir")
     ELSE [ok |-> TRUE, params |-> p0, step |-> s0]

\* save_checkpoint that names the file after self._step, not after its argument
save_checkpoint_atCurrent(dirs, s, p) ==
  [dirs EXCEPT !["model_dir"] =
     WriteFile(dirs["model_dir"], CHECKPOINT_FILE_FORMAT(Str(step)), p)]

\* save_checkpoint(step): model_dir after torch.save
save_checkpoint(dirs, s, p) ==
  [dirs EXCEPT !["model_dir"] =
     WriteFile(dirs["model_dir"], CHECKPOINT_FILE_FORMAT(Str(s)), p)]

\* ------------------------------------------------------------ initial state
\* a directory holding a checkpoint for each step of S
DirOf(S) ==
  [n \in {CHECKPOINT_FILE_FORMAT(Str(s)) : s \in S} |-> PyInt(StepGroup(n)) % NumParams]

\* the directory of pretrained checkpoints finetune may be pointed at
PretrainedDir == DirOf({9, 10})

NoCall == [op |-> "none"]
Ok == [exc |-> "ok", targets |-> 0, predictions |-> 0]
Raise(e) == [exc |-> e, targets |-> 0, predictions |-> 0]

\* the model_dir the wrapper is constructed over: new, or left by an earlier run
\* that saved at the steps 3 and 7
InitialSteps == {{}, {3, 7}}

\* HfPyTorchModel(model_spec, model_dir, device): the parameters of model_spec,
\* step 0, then load_latest_checkpoint()
Init ==
  /\ \E S \in InitialSteps :
       /\ files = [d \in Dirs |-> IF d = "model_dir" THEN DirOf(S) ELSE PretrainedDir]
       /\ saved = S
  /\ step = load_latest_checkpoint(0, 0).step
  /\ params = load_latest_checkpoint(0, 0).params
  /\ pc = "idle"
  /\ call = NoCall
  /\ result = Ok
  /\ calls = 0
  /\ prev = NoCall
  /\ train_step = -1
  /\ trainSaved = {}
  /\ tasks = <<>>
  /\ cached = [t \in {} |-> 0]
  /\ ckpts = <<>>
  /\ taskIdx = 0
  /\ predFiles = {}
  /\ scalars = {}
  /\ loaded = <<>>

\* a top-level call may start: no call is running
CanCall == pc = "idle" /\ calls < MaxCalls

\* the call has returned or raised: the caller goes on, and may call again
Return ==
  /\ pc = "done"
  /\ pc' = "idle"
  /\ prev' = IF call.op = "save" THEN [op |-> "save", step |-> call.step] ELSE NoCall
  /\ call' = NoCall
  /\ result' = Ok
  /\ train_step' = -1
  /\ trainSaved' = {}
  /\ tasks' = <<>>
  /\ cached' = [t \in {} |-> 0]
  /\ ckpts' = <<>>
  /\ taskIdx' = 0
  /\ predFiles' = {}
  /\ scalars' = {}
  /\ loaded' = <<>>
  /\ UNCHANGED <<step, params, files, calls, saved>>

\* ------------------------------------------------------ checkpoint store API
\* a new wrapper over the same model_dir: __init__ with the parameters p0 of
\* model_spec, which ends with load_latest_checkpoint()
Construct ==
  /\ CanCall
  /\ \E p0 \in Params :
       LET r == load_latest_checkpoint(p0, 0)
       IN /\ params' = r.params
          /\ step' = r.step
          /\ call' = [op |-> "construct", s0 |-> 0, p0 |-> p0, files0 |-> files]
  /\ result' = Ok
  /\ pc' = "done"
  /\ calls' = calls + 1
  /\ UNCHANGED <<files, saved, prev, train_step, trainSaved>>
  /\ UNCHANGED evalVars

SaveCheckpoint ==
  /\ CanCall
  /\ \E s \in 0 .. MaxSaveArg :
       /\ files' = save_checkpoint(files, s, params)
       /\ saved' = saved \cup {s}
       /\ call' = [op |-> "save", step |-> s, s0 |-> step, p0 |-> params,
                   files0 |-> files]
  /\ result' = Ok
  /\ pc' = "done"
  /\ calls' = calls + 1
  /\ UNCHANGED <<step, params, prev, train_step, trainSaved>>
  /\ UNCHANGED evalVars

LoadCheckpoint ==
  /\ CanCall
  /\ \E s \in 0 .. MaxStep, d \in Dirs :
       LET r == load_checkpoint(Some(s), d)
       IN /\ params' = r.params
          /\ step' = r.step
          /\ result' = IF r.ok THEN Ok ELSE Raise("FileNotFoundError")
          /\ call' = [op |-> "load", step |-> s, dir |-> d, s0 |-> step, p0 |-> params,
                      files0 |-> files]
  /\ pc' = "done"
  /\ calls' = calls + 1
  /\ UNCHANGED <<files, saved, prev, train_step, trainSaved>>
  /\ UNCHANGED evalVars

LoadLatestCheckpoint ==
  /\ CanCall
  /\ LET r == load_latest_checkpoint(params, step)
     IN /\ params' = r.params
        /\ step' = r.step
  /\ call' = [op |-> "load_latest", s0 |-> step, p0 |-> params, files0 |-> files]
  /\ result' = Ok
  /\ pc' = "done"
  /\ calls' = calls + 1
  /\ UNCHANGED <<files, saved, prev, train_step, trainSaved>>
  /\ UNCHANGED evalVars

\* ------------------------------------------------------------ training loop
\* a save test that skips the save before the first step
SaveDue_skipFirst(i, save_steps) == i % save_steps = 0 /\ i > 0

\* `if not train_step % save_steps`, and, negated, the test after the loop
SaveDue(i, save_steps) == i % save_steps = 0

\* self._step += 1
NextStep(s) == s + 1

\* optimizer.step(): the parameters after one update, each update taken to give
\* the next value of Params
OptimizerStep(p) == (p + 1) % NumParams

Train ==
  /\ CanCall
  /\ \E steps \in 0 .. MaxTrainSteps, save_steps \in 1 .. MaxSaveSteps :
       /\ step + steps <= MaxStep
       /\ call' = [op |-> "train", steps |-> steps, save_steps |-> save_steps,
                   s0 |-> step, p0 |-> params, files0 |-> files]
  /\ pc' = "train"
  /\ calls' = calls + 1
  /\ UNCHANGED <<step, params, files, saved, result, prev, train_step, trainSaved>>
  /\ UNCHANGED evalVars

\* one iteration of the loop over enumerate(itertools.islice(ds, steps))
TrainIter ==
  /\ pc = "train"
  /\ train_step + 1 < call.steps
  /\ train_step' = train_step + 1
  /\ IF SaveDue(train_step + 1, call.save_steps)
     THEN /\ files' = save_checkpoint(files, step, params)
          /\ saved' = saved \cup {step}
          /\ trainSaved' = trainSaved \cup {step}
     ELSE UNCHANGED <<files, saved, trainSaved>>
  /\ params' = OptimizerStep(params)
  /\ step' = NextStep(step)
  /\ UNCHANGED <<pc, call, result, calls, prev>>
  /\ UNCHANGED evalVars

\* the loop is exhausted: the final save, or the unbound train_step of steps = 0
TrainEnd ==
  /\ pc = "train"
  /\ train_step + 1 >= call.steps
  /\ IF train_step = -1
     THEN /\ result' = Raise("UnboundLocalError")
          /\ UNCHANGED <<files, saved, trainSaved>>
     ELSE /\ result' = Ok
          /\ IF ~SaveDue(train_step, call.save_steps)
             THEN /\ files' = save_checkpoint(files, step, params)
                  /\ saved' = saved \cup {step}
                  /\ trainSaved' = trainSaved \cup {step}
             ELSE UNCHANGED <<files, saved, trainSaved>>
  /\ pc' = "done"
  /\ UNCHANGED <<step, params, call, calls, prev, train_step>>
  /\ UNCHANGED evalVars

\* ----------------------------------------------------------- finetune driver
\* finetune up to self.train(...): the -1 default, then load_checkpoint from
\* pretrained_model_dir; train's loop follows as TrainIter and TrainEnd
Finetune ==
  /\ CanCall
  /\ \E finetune_steps \in 0 .. MaxFinetuneSteps, save_steps \in 1 .. MaxSaveSteps,
        pretrained_model_dir \in Dirs, pretrained_checkpoint_step \in {-1, 2, 9} :
       LET resolved == IF pretrained_checkpoint_step = -1
                       THEN get_latest_checkpoint_step(pretrained_model_dir)
                       ELSE Some(pretrained_checkpoint_step)
           r == load_checkpoint(resolved, pretrained_model_dir)
       IN /\ r.step + finetune_steps <= MaxStep
          /\ params' = r.params
          /\ step' = r.step
          /\ call' = [op |-> "finetune", steps |-> finetune_steps,
                      save_steps |-> save_steps, dir |-> pretrained_model_dir,
                      pretrained_checkpoint_step |-> pretrained_checkpoint_step,
                      s0 |-> step, p0 |-> params, files0 |-> files]
          /\ IF r.ok
             THEN /\ pc' = "train"
                  /\ result' = result
             ELSE /\ pc' = "done"
                  /\ result' = Raise("FileNotFoundError")
  /\ calls' = calls + 1
  /\ UNCHANGED <<files, saved, prev, train_step, trainSaved>>
  /\ UNCHANGED evalVars

\* --------------------------------------------------- evaluation orchestrator
\* the registry of t5.data: tasks, their splits, metric functions and examples
TaskSplits(t) ==
  CASE t = "cola" -> {"train", "validation"}
    [] t = "rte" -> {"train", "validation", "test"}
    [] t = "nometric" -> {"train", "validation"}
    [] t = "nosplit" -> {"train"}
    [] t = "empty" -> {"train", "validation"}

\* len(task.metric_fns)
MetricFns(t) ==
  CASE t = "cola" -> 1
    [] t = "rte" -> 2
    [] t = "nometric" -> 0
    [] t = "nosplit" -> 1
    [] t = "empty" -> 1

\* the number of examples of the task's split
Examples(t, split) ==
  CASE t = "cola" -> NumExamples
    [] t = "rte" -> 2
    [] t = "nometric" -> 1
    [] t = "nosplit" -> 1
    [] t = "empty" -> IF split = "validation" THEN 0 ELSE 1

\* t5.data.get_mixture_or_task(name): the tasks of a Mixture, or the Task alone
MixtureTasks(name) ==
  CASE name = "cola" -> <<"cola">>
    [] name = "nometric" -> <<"nometric">>
    [] name = "empty" -> <<"empty">>
    [] name = "glue" -> <<"cola", "rte">>
    [] name = "mix" -> <<"nosplit", "cola">>
MixtureNames == {"cola", "nometric", "empty", "glue", "mix"}

\* dataset.batch(batch_size, drop_remainder=False): the sizes of the batches of n examples
RECURSIVE Batches(_, _)
Batches(n, batch_size) ==
  IF n = 0 THEN <<>>
  ELSE IF n <= batch_size THEN <<n>>
  ELSE <<batch_size>> \o Batches(n - batch_size, batch_size)

\* [task for task in tasks if split in task.splits]
RECURSIVE SplitFilter(_, _)
SplitFilter(ts, split) ==
  IF ts = <<>> THEN <<>>
  ELSE IF split \in TaskSplits(Head(ts))
       THEN <<Head(ts)>> \o SplitFilter(Tail(ts), split)
       ELSE SplitFilter(Tail(ts), split)

SeqSet(q) == {q[i] : i \in 1 .. Len(q)}

\* the tasks the pre-caching pass loads: those with metric functions
CachedTasks(ts) == {t \in SeqSet(ts) : MetricFns(t) > 0}

\* len(list(zip(a, b))) of lists of a and b elements
ZipLen(a, b) == IF a <= b THEN a ELSE b

\* len(predictions) after the loop over the batches, the model generating
\* rows[b] sequences for batch b
RECURSIVE NumPredictions(_, _)
NumPredictions(batches, rows) ==
  IF batches = <<>> THEN 0
  ELSE ZipLen(Head(rows), Head(batches)) + NumPredictions(Tail(batches), Tail(rows))

\* the values of checkpoint_steps a caller passes
EvalSteps == {0, 4}
CheckpointStepsArgs ==
  {[kind |-> k, v |-> <<>>] : k \in {"none", "all", "other"}}
    \cup {[kind |-> "int", v |-> <<s>>] : s \in {-1} \cup EvalSteps}
    \cup {[kind |-> "list", v |-> <<a, b>>] : a, b \in EvalSteps}

\* the dispatch on checkpoint_steps: the list of steps to load, None for "all"
\* of a directory without checkpoints
ExpandCheckpointSteps(cs) ==
  IF cs.kind = "all" THEN get_all_checkpoint_steps("model_dir")
  ELSE [none |-> FALSE, v |-> cs.v]

\* a dispatch that never takes the evaluate-in-place branch
EvalsInPlace_never(cs) == FALSE

\* `if checkpoint_steps is None`: evaluate the model as it is, load nothing
EvalsInPlace(cs) == cs.kind = "none"

\* a count check that lets fewer predictions than targets through
CountsMatch_atMost(targets, predictions) == predictions <= targets

\* the negation of `if len(targets) != len(predictions)`
CountsMatch(targets, predictions) == targets = predictions

\* what follows the evaluation of the current model: the next checkpoint, or the end
AfterEval(rest) == IF rest = <<>> THEN "done" ELSE "eval_load"

\* eval up to its first checkpoint: the split filter, the pre-caching pass and
\* the dispatch on checkpoint_steps
Eval ==
  /\ CanCall
  /\ \E name \in MixtureNames, split \in {"validation", "test"},
        batch_size \in {2, 4}, checkpoint_steps \in CheckpointStepsArgs :
       LET ts == SplitFilter(MixtureTasks(name), split)
           todo == ExpandCheckpointSteps(checkpoint_steps)
       IN /\ call' = [op |-> "eval", checkpoint_steps |-> checkpoint_steps,
                      s0 |-> step, p0 |-> params, files0 |-> files]
          /\ tasks' = ts
          /\ IF \E t \in CachedTasks(ts) : Batches(Examples(t, split), batch_size) = <<>>
             THEN /\ cached' = [t \in {} |-> 0]
                  /\ ckpts' = <<>>
                  /\ taskIdx' = 0
                  /\ result' = Raise("ValueError: split is empty")
                  /\ pc' = "done"
             ELSE /\ cached' = [t \in CachedTasks(ts) |->
                                  [targets |-> Examples(t, split),
                                   batches |-> Batches(Examples(t, split), batch_size)]]
                  /\ IF EvalsInPlace(checkpoint_steps)
                     THEN /\ ckpts' = <<>>
                          /\ taskIdx' = IF ts = <<>> THEN 0 ELSE 1
                          /\ result' = Ok
                          /\ pc' = IF ts = <<>> THEN "done" ELSE "eval_task"
                     ELSE IF checkpoint_steps.kind = "other"
                     THEN /\ ckpts' = <<>>
                          /\ taskIdx' = 0
                          /\ result' = Raise("ValueError: checkpoint_steps")
                          /\ pc' = "done"
                     ELSE IF todo.none
                     THEN /\ ckpts' = <<>>
                          /\ taskIdx' = 0
                          /\ result' = Raise("TypeError")
                          /\ pc' = "done"
                     ELSE /\ ckpts' = todo.v
                          /\ taskIdx' = 0
                          /\ result' = Ok
                          /\ pc' = AfterEval(todo.v)
  /\ calls' = calls + 1
  /\ UNCHANGED <<step, params, files, saved, prev, train_step, trainSaved,
                 predFiles, scalars, loaded>>

\* self.load_checkpoint(checkpoint_step) of the loop over checkpoint_steps
EvalLoad ==
  /\ pc = "eval_load"
  /\ LET r == load_checkpoint(Some(Head(ckpts)), "model_dir")
     IN /\ params' = r.params
        /\ step' = r.step
        /\ IF r.ok
           THEN /\ loaded' = Append(loaded, Head(ckpts))
                /\ ckpts' = Tail(ckpts)
                /\ result' = result
                /\ IF tasks = <<>>
                   THEN /\ taskIdx' = 0
                        /\ pc' = AfterEval(Tail(ckpts))
                   ELSE /\ taskIdx' = 1
                        /\ pc' = "eval_task"
           ELSE /\ result' = Raise("FileNotFoundError")
                /\ pc' = "done"
                /\ UNCHANGED <<loaded, ckpts, taskIdx>>
  /\ UNCHANGED <<files, saved, call, calls, prev, train_step, trainSaved,
                 tasks, cached, predFiles, scalars>>

\* one task of _eval_current_model: generation, the count check, the
\* predictions file and the scalars
EvalTask ==
  /\ pc = "eval_task"
  /\ LET task == tasks[taskIdx]
     IN IF task \notin DOMAIN cached
        THEN /\ result' = Raise("KeyError")
             /\ pc' = "done"
             /\ UNCHANGED <<taskIdx, predFiles, scalars>>
        ELSE \E delta \in [1 .. Len(cached[task].batches) -> {-1, 0, 1}] :
               LET batches == cached[task].batches
                   rows == [b \in 1 .. Len(batches) |-> batches[b] + delta[b]]
                   targets == cached[task].targets
                   predictions == NumPredictions(batches, rows)
               IN IF ~CountsMatch(targets, predictions)
                  THEN /\ result' = [exc |-> "ValueError: #targets != #predictions",
                                     targets |-> targets, predictions |-> predictions]
                       /\ pc' = "done"
                       /\ UNCHANGED <<taskIdx, predFiles, scalars>>
                  ELSE /\ predFiles' = predFiles \cup {<<task, step, predictions>>}
                       /\ scalars' = scalars \cup
                            {<<task, m, step, params>> : m \in 1 .. MetricFns(task)}
                       /\ result' = result
                       /\ IF taskIdx < Len(tasks)
                          THEN /\ taskIdx' = taskIdx + 1
                               /\ pc' = "eval_task"
                          ELSE /\ taskIdx' = 0
                               /\ pc' = AfterEval(ckpts)
  /\ UNCHANGED <<step, params, files, saved, call, calls, prev, train_step, trainSaved,
                 tasks, cached, ckpts, loaded>>

Next ==
  \/ Construct
  \/ SaveCheckpoint
  \/ LoadCheckpoint
  \/ LoadLatestCheckpoint
  \/ Train
  \/ TrainIter
  \/ TrainEnd
  \/ Finetune
  \/ Eval
  \/ EvalLoad
  \/ EvalTask
  \/ Return

Spec == Init /\ [][Next]_vars

\* ==================================================================== claims
\* the steps that have a checkpoint file in a directory
StepsOf(dir) == {s \in 0 .. (MaxStep + 1) : CHECKPOINT_FILE_FORMAT(Str(s)) \in DOMAIN dir}
\* the directory has a checkpoint of step s that holds the parameters p
HasFile(dir, s, p) ==
  /\ CHECKPOINT_FILE_FORMAT(Str(s)) \in DOMAIN dir
  /\ dir[CHECKPOINT_FILE_FORMAT(Str(s))] = p
FileOf(dir, s) == dir[CHECKPOINT_FILE_FORMAT(Str(s))]
Largest(S) == CHOOSE m \in S : \A x \in S : x <= m
TrainReturned == pc = "done" /\ call.op = "train" /\ result.exc = "ok"

\* C1: when train(steps, save_steps) with steps >= 1 and save_steps >= 1 returns,
\* the step counter is s0 + steps and model_dir holds a checkpoint of that step.
C1_FinalStepHasCheckpoint ==
  (TrainReturned /\ call.steps >= 1)
    => /\ step = call.s0 + call.steps
       /\ step \in StepsOf(files["model_dir"])

\* the steps train saves at: the counter before each iteration whose index is a
\* multiple of save_steps, and the final counter when the last index is none
ExpectedSaves(s0, steps, save_steps) ==
  {s0 + i : i \in {j \in 0 .. (steps - 1) : j % save_steps = 0}}
    \cup (IF (steps - 1) % save_steps # 0 THEN {s0 + steps} ELSE {})

\* C2: train saves at exactly the steps of ExpectedSaves and changes no other
\* file; train(steps=10, save_steps=4) from step 0 on an empty model_dir leaves
\* checkpoints at exactly {0, 4, 8, 10}.
C2_TrainSavesExactly ==
  TrainReturned =>
    LET exp == ExpectedSaves(call.s0, call.steps, call.save_steps)
        old == call.files0["model_dir"]
        new == files["model_dir"]
    IN /\ trainSaved = exp
       /\ StepsOf(new) = StepsOf(old) \cup exp
       /\ \A s \in StepsOf(old) \ exp : FileOf(new, s) = FileOf(old, s)
       /\ (call.s0 = 0 /\ call.steps = 10 /\ call.save_steps = 4 /\ StepsOf(old) = {})
            => StepsOf(new) = {0, 4, 8, 10}

C2_Witness ==
  /\ TrainReturned
  /\ call.s0 = 0 /\ call.steps = 10 /\ call.save_steps = 4
  /\ StepsOf(call.files0["model_dir"]) = {}
  /\ StepsOf(files["model_dir"]) = {0, 4, 8, 10}

\* C3 (as claimed): on one wrapper the step counter never takes a value smaller
\* than one it held before.
C3_StepNeverDecreases == [][call'.op # "construct" => step' >= step]_vars

\* C3 (amended): the counter changes only by a training step, which adds one, or
\* by loading a checkpoint, which sets it to the step of the checkpoint loaded,
\* smaller or not; save and eval without checkpoint steps leave it alone.
C3_StepChangesByTrainOrLoad ==
  [][(call'.op # "construct" /\ step' # step)
       => \/ pc = "train" /\ step' = step + 1
          \/ /\ call'.op \in {"load", "load_latest", "eval", "finetune"}
             /\ call'.op = "eval" => call'.checkpoint_steps.kind # "none"
             /\ \E d \in Dirs : HasFile(files[d], step', params')]_vars

C3_Witness ==
  pc = "done" /\ call.op = "load" /\ result.exc = "ok" /\ step < call.s0

\* C4: eval with checkpoint_steps = -1 on a model_dir with checkpoints loads the
\* checkpoint of the largest step and leaves the current step equal to it.
C4_EvalMinusOneLoadsLatest ==
  (/\ pc = "done"
   /\ call.op = "eval"
   /\ call.checkpoint_steps = [kind |-> "int", v |-> <<-1>>]
   /\ result.exc # "ValueError: split is empty"
   /\ saved # {})
    => /\ loaded = <<Largest(saved)>>
       /\ step = Largest(saved)

\* C5: load_latest, and construction, leave the current step at the largest
\* step saved in model_dir with the parameters of that checkpoint; with no
\* checkpoint they load nothing, and the step stays as it was (0 at construction).
C5_LoadLatestLoadsMaximum ==
  (pc = "done" /\ call.op \in {"load_latest", "construct"})
    => /\ result.exc = "ok"
       /\ IF saved = {}
          THEN step = call.s0 /\ params = call.p0
          ELSE /\ step = Largest(saved)
               /\ HasFile(files["model_dir"], Largest(saved), params)
       /\ call.op = "construct" => call.s0 = 0

C5_Witness ==
  /\ pc = "done" /\ call.op = "load_latest"
  /\ prev = [op |-> "save", step |-> 1]
  /\ saved = {1, 3, 7}
  /\ step = 7

\* C6: list_steps returns the steps saved so far, each once, in ascending
\* order, and None (not an empty list) when nothing was saved.
C6_ListStepsSortedSaved ==
  LET r == get_all_checkpoint_steps("model_dir")
  IN IF saved = {}
     THEN r.none
     ELSE /\ ~r.none
          /\ Len(r.v) = Cardinality(saved)
          /\ SeqSet(r.v) = saved
          /\ \A i, j \in 1 .. Len(r.v) : i < j => r.v[i] < r.v[j]

\* a save over an existing checkpoint, steps of one and of two digits on disk
C6_Witness ==
  /\ pc = "done" /\ call.op = "save"
  /\ call.step \in StepsOf(call.files0["model_dir"])
  /\ get_all_checkpoint_steps("model_dir").v = <<0, 4, 8, 10>>

\* C7: save(N) leaves the step and the parameters alone, and load(N) right
\* after it succeeds, leaves the parameters as they were and the step at N.
C7_SaveLoadRoundTrip ==
  /\ (pc = "done" /\ call.op = "save")
       => /\ step = call.s0
          /\ params = call.p0
          /\ HasFile(files["model_dir"], call.step, params)
  /\ (/\ pc = "done" /\ call.op = "load" /\ call.dir = "model_dir"
      /\ prev = [op |-> "save", step |-> call.step])
       => /\ result.exc = "ok"
          /\ params = call.p0
          /\ step = call.step

\* the step saved and loaded is not the current one, and the file existed with
\* other parameters
C7_Witness ==
  /\ pc = "done" /\ call.op = "load" /\ call.dir = "model_dir"
  /\ prev = [op |-> "save", step |-> call.step]
  /\ call.step # call.s0
  /\ step = call.step

\* C8: eval without checkpoint_steps loads nothing and leaves the step, the
\* parameters and the checkpoint files as they were; what it writes and logs,
\* for every task when it returns, is under that step and from those parameters.
C8_EvalInPlaceReadOnly ==
  (call.op = "eval" /\ call.checkpoint_steps.kind = "none")
    => /\ step = call.s0
       /\ params = call.p0
       /\ files = call.files0
       /\ loaded = <<>>
       /\ \A f \in predFiles : f[2] = call.s0
       /\ \A sc \in scalars : sc[3] = call.s0 /\ sc[4] = call.p0
       /\ (pc = "done" /\ result.exc = "ok")
            => /\ {f[1] : f \in predFiles} = SeqSet(tasks)
               /\ scalars = UNION {{<<t, m, call.s0, call.p0>> : m \in 1 .. MetricFns(t)} :
                                      t \in SeqSet(tasks)}

C8_Witness ==
  /\ pc = "done" /\ call.op = "eval" /\ call.checkpoint_steps.kind = "none"
  /\ result.exc = "ok"
  /\ tasks = <<"cola", "rte">>
  /\ call.s0 = 7
  /\ Cardinality(scalars) = 3

MismatchError == "ValueError: #targets != #predictions"

\* C9: the step of eval that finds the prediction count different from the
\* target count raises the error with both counts and writes no predictions
\* file and logs no scalar; a predictions file is written only with as many
\* lines as there are targets.
C9_CountMismatchFailsFirst ==
  [][/\ (result'.exc = MismatchError /\ result.exc # MismatchError)
          => /\ pc = "eval_task" /\ pc' = "done"
             /\ result'.targets = cached[tasks[taskIdx]].targets
             /\ result'.predictions # result'.targets
             /\ predFiles' = predFiles
             /\ scalars' = scalars
     /\ \A f \in predFiles' \ predFiles :
          /\ f[1] = tasks[taskIdx]
          /\ f[3] = cached[f[1]].targets]_vars

C9_Witness ==
  /\ pc = "done" /\ call.op = "eval"
  /\ result = [exc |-> MismatchError, targets |-> 5, predictions |-> 4]
  /\ <<"cola", step, 5>> \notin predFiles

\* C10: finetune with pretrained_checkpoint_step = -1 loads the checkpoint of the
\* largest step p of pretrained_model_dir from that directory, trains from p, and
\* ends at p + finetune_steps with its checkpoints in model_dir alone.
C10_FinetuneFromLatest ==
  (/\ call.op = "finetune"
   /\ call.pretrained_checkpoint_step = -1
   /\ StepsOf(call.files0[call.dir]) # {})
    => LET p == Largest(StepsOf(call.files0[call.dir]))
       IN /\ pc \in {"train", "done"}
          /\ pc = "train" => step = p + train_step + 1
          /\ (pc = "train" /\ train_step = -1)
               => HasFile(call.files0[call.dir], p, params)
          /\ pc = "done" => /\ step = p + call.steps
                            /\ call.steps >= 1 => result.exc = "ok"
          /\ files["pretrained_model_dir"] = call.files0["pretrained_model_dir"]
          /\ trainSaved \subseteq StepsOf(files["model_dir"])
          /\ StepsOf(files["model_dir"]) = StepsOf(call.files0["model_dir"]) \cup trainSaved

C10_Witness ==
  /\ pc = "done" /\ call.op = "finetune" /\ result.exc = "ok"
  /\ call.pretrained_checkpoint_step = -1
  /\ call.dir = "pretrained_model_dir"
  /\ call.s0 = 7
  /\ call.steps = 2
  /\ step = 12
  /\ trainSaved = {10, 12}


\* the tasks the running eval has written a predictions file or a scalar for
Evaluated == {f[1] : f \in predFiles} \cup {sc[1] : sc \in scalars}

\* C11: the tasks eval evaluates are exactly the cached ones, those of the
\* mixture that have the split and a metric function; a task without the split,
\* or with it and without a metric function, is not evaluated and never makes
\* eval fail, and a mixture left without tasks evaluates none and returns.
C11_EvaluatesExactlyCachedTasks ==
  call.op = "eval"
    => /\ result.exc # "KeyError"
       /\ Evaluated \subseteq DOMAIN cached
       /\ (/\ pc = "done" /\ result.exc = "ok"
           /\ call.checkpoint_steps.kind = "none" \/ loaded # <<>>)
            => Evaluated = CachedTasks(tasks)
       /\ (pc = "done" /\ tasks = <<>> /\ call.checkpoint_steps.kind = "none")
            => result.exc = "ok" /\ Evaluated = {}

\* the errors of eval that are not about the checkpoints to load
TaskErrors == {"ValueError: split is empty", "KeyError", MismatchError}

\* C12: eval with checkpoint_steps = "all" loads the steps list_steps reports,
\* each once and in ascending order, evaluates every task after each load under
\* the step and with the parameters loaded, and returns at the largest step;
\* on a model_dir without checkpoints it evaluates nothing and returns without error.
C12_EvalAllAscendingOnce ==
  (/\ pc = "done" /\ call.op = "eval"
   /\ call.checkpoint_steps.kind = "all"
   /\ result.exc \notin TaskErrors)
    => LET dir == call.files0["model_dir"]
           steps == StepsOf(dir)
       IN /\ result.exc = "ok"
          /\ Len(loaded) = Cardinality(steps)
          /\ SeqSet(loaded) = steps
          /\ \A i, j \in 1 .. Len(loaded) : i < j => loaded[i] < loaded[j]
          /\ predFiles = {<<t, s, cached[t].targets>> : t \in SeqSet(tasks), s \in steps}
          /\ scalars = UNION {{<<t, m, s, FileOf(dir, s)>> : m \in 1 .. MetricFns(t)} :
                                 <<t, s>> \in SeqSet(tasks) \X steps}
          /\ IF steps = {}
             THEN step = call.s0 /\ params = call.p0
             ELSE step = Largest(steps) /\ params = FileOf(dir, Largest(steps))

====
